---- MODULE Spec2Model ----
(***************************************************************************)
(* Model of the smart-building sensor simulator (src/sensor-simulator).    *)
(*                                                                         *)
(* Numbers.  Every sensor value is a fixed-point integer counted in units  *)
(* of 1/Unit (1e-5), the finest rounding any sensor applies (round(x, 5)   *)
(* of the energy meter).  21.0 degrees is 2100000, 450 ppm is 45000000.    *)
(* Draws of the random generator are inputs chosen from small sets of      *)
(* representative values that contain both ends of the drawn interval.     *)
(*                                                                         *)
(* Specifications.                                                         *)
(*   Spec       main.py: configuration loaded, setup, the two update       *)
(*              loops and the protocol stacks reading the two tables       *)
(*   LiveSpec   the same loops with no limit on the passes, under the      *)
(*              fairness of the asyncio event loop                         *)
(*   RegSpec    the register table late in a run                           *)
(*   LiteSpec   the BACnetServer and ModbusServer classes of sensors.py    *)
(*   SensorSpec one sensor instance called again and again                 *)
(*   RoomSpec   one room profile instance called again and again           *)
(*   KitchenSpec a Kitchen, fresh or late in a cooking episode              *)
(*   LoadSpec   main.py from the start of SimulatorCoordinator.__init__     *)
(*   TelemetrySpec sensor_simulator.py: the telemetry loop over the rooms   *)
(*   HookSpec   the loops of main.py and a caller of set_occupancy          *)
(*   ShutdownSpec main.py while a signal raises the shutdown flag           *)
(*                                                                         *)
(* Time.  Durations are whole milliseconds.  The time a pass or an         *)
(* iteration takes is an input, like a draw.                               *)
(***************************************************************************)
EXTENDS Integers, Sequences, FiniteSets, TLC

VARIABLES
    sensors,         \* sensor id -> sensor instance (its fields)
    bacnet_sensors,  \* SimulatorCoordinator.bacnet_sensors: dict, as the sequence of its items
    modbus_sensors,  \* SimulatorCoordinator.modbus_sensors: dict, as the sequence of its items
    bacnet_objects,  \* BACnetSimulator.bacnet_objects: object_id -> presentValue of the avo
    hr,              \* holding-register block of the Modbus datastore (<<>> before setup)
    pc,              \* position of each update loop
    idx,             \* position of each loop inside its for-loop over the dict items
    outcome,         \* how the last finished pass of each loop ended
    refreshed,       \* keys whose entry the current (or last) pass of each loop refreshed
    failed,          \* keys whose update raised in the current (or last) pass
    passes,          \* number of passes each loop has begun
    written,         \* per table and key: the last two values stored for that key
    pacing,          \* per loop: the time its last finished pass took, the sleep it
                     \* awaits after it and what it logged
    lastRead,        \* the last answer a protocol reader was given
    calls,           \* number of calls made from outside the loops: to a sensor whose
                     \* state grows without limit, or to set_occupancy
    sensors_data,    \* _load_config: the sensor_config entries its for-loop has still to load
    loaded,          \* the sensor_config entries the for-loop has gone through
    startup,         \* how far SimulatorCoordinator.__init__ is, and the error that ended it
    rooms,           \* SensorSimulator.rooms: the list of room profile instances
    telemetry,       \* the dict the last get_telemetry() returned
    regimes,         \* per room: the regime each call so far left it in, as runs of equal regime
    shutdown_flag,   \* the global shutdown_flag of sensor_simulator.py
    message_count,   \* SensorSimulator.message_count
    run,             \* position of SensorSimulator.run, and of its for-loop in self.rooms
    timing,          \* run: elapsed and sleep_time of the iteration whose for-loop is
                     \* over, the time slept and whether the lag warning was logged
    iteration        \* the current iteration of run: its number, the rooms it called,
                     \* published and failed on, and whether a shutdown cut it short

vars == <<sensors, bacnet_sensors, modbus_sensors, bacnet_objects, hr, pc, idx,
          outcome, refreshed, failed, passes, written, pacing, lastRead, calls,
          sensors_data, loaded, startup, rooms, telemetry, regimes,
          shutdown_flag, message_count, run, iteration, timing>>

\* the variables of _load_config and SimulatorCoordinator.__init__
loadVars == <<sensors_data, loaded, startup>>

\* the variables of the telemetry process (sensor_simulator.py, room_profiles.py)
telemetryVars == <<rooms, telemetry, regimes,
                   shutdown_flag, message_count, run, iteration, timing>>

\* the variables of SensorSimulator.run
runVars == <<shutdown_flag, message_count, run, iteration, timing>>

storeVars == <<bacnet_sensors, modbus_sensors, bacnet_objects, hr, pc, idx,
               outcome, refreshed, failed, passes, written, pacing>>

-----------------------------------------------------------------------------
(* Fixed point *)

Unit == 100000

\* Sensor.last_value before the first get_value()
None == -1

\* float('nan'), the value packed for an unknown object or register
NaN == -2

Min(a, b) == IF a <= b THEN a ELSE b

Max(a, b) == IF a >= b THEN a ELSE b

\* max(lo, min(hi, x))
Clamp(lo, hi, x) == Max(lo, Min(hi, x))

\* 10 ** n for the few n used
Pow10(n) == CASE n = 0 -> 1 [] n = 1 -> 10 [] n = 2 -> 100 [] n = 3 -> 1000
              [] n = 4 -> 10000 [] n = 5 -> 100000

\* round(x, ndigits) of a value counted in 1/Unit, ties away from zero
Round(x, ndigits) ==
    LET q == Unit \div Pow10(ndigits)
    IN  IF x >= 0 THEN ((x + q \div 2) \div q) * q
                  ELSE -(((-x + q \div 2) \div q) * q)

-----------------------------------------------------------------------------
(* Sensor construction: sensors.py __init__ methods *)

\* random.uniform(-0.01, 0.01)
DriftDraws == {-1000, 1000}

\* random.uniform(-0.1, 0.1)
TempNoiseDraws == {-10000, 2500, 10000}

\* random.uniform(-0.5, 0.5)
HumidityNoiseDraws == {-50000, 12500, 50000}

\* random.uniform(-10, 10)
CO2NoiseDraws == {-1000000, 1000000}

\* random.uniform(-2, 2)
AqiNoiseDraws == {-200000, 50000, 200000}

\* random.uniform(50, 100)
AqiStartDraws == {5000000, 7550000, 10000000}

\* random.uniform(300, 600)
LuxOnDraws == {30000000, 45123700, 60000000}

\* random.uniform(0, 50)
LuxOffDraws == {0, 2550400, 5000000}

\* random.uniform(0, 5)
EnergyStartDraws == {0, 123456, 500000}

\* random.uniform(0.001, 0.005)
EnergyRateDraws == {100, 222, 500}

\* random.choice([-1, 0, 0, 0, 1])
OccupancyChangeDraws == {-1, 0, 1}

TemperatureSensor(drift) ==
    [kind |-> "temperature", last_value |-> None, base_temp |-> 21 * Unit,
     current_temp |-> 21 * Unit, drift_rate |-> drift]

HumiditySensor ==
    [kind |-> "humidity", last_value |-> None, base_humidity |-> 45 * Unit,
     current_humidity |-> 45 * Unit]

\* occupancy_multiplier is counted in tenths: 1.0 is 10
CO2Sensor ==
    [kind |-> "co2", last_value |-> None, base_co2 |-> 450 * Unit,
     current_co2 |-> 450 * Unit, occupancy_multiplier |-> 10]

AirQualitySensor(start) ==
    [kind |-> "air_quality", last_value |-> None, current_aqi |-> start]

LightSensor(on) ==
    [kind |-> "light", last_value |-> None, is_on |-> on,
     lux_level |-> IF on THEN 500 * Unit ELSE 0]

EnergySensor(start, rate) ==
    [kind |-> "energy", last_value |-> None, cumulative_kwh |-> start,
     consumption_rate |-> rate]

MotionSensor ==
    [kind |-> "motion", last_value |-> None, motion_detected |-> FALSE]

OccupancySensor(start) ==
    [kind |-> "occupancy", last_value |-> None, max_occupancy |-> 15,
     current_count |-> start]

-----------------------------------------------------------------------------
(* Sensor.read of each variant: the new fields and the returned value.     *)
(* d is the record of the random draws the call makes.                     *)

\* TemperatureSensor.read keeping only the upper limit: min(28, current_temp)
TemperatureSensor_read_no_floor(s, d) ==
    LET t == Min(28 * Unit, s.current_temp + s.drift_rate + d.noise)
    IN  [s |-> [s EXCEPT !.current_temp = t,
                         !.drift_rate = IF d.reset THEN d.drift ELSE @],
         value |-> Round(t, 2)]

TemperatureSensor_read(s, d) ==
    LET t == Clamp(18 * Unit, 28 * Unit, s.current_temp + s.drift_rate + d.noise)
    IN  [s |-> [s EXCEPT !.current_temp = t,
                         !.drift_rate = IF d.reset THEN d.drift ELSE @],
         value |-> Round(t, 2)]

HumiditySensor_read(s, d) ==
    LET h == Clamp(30 * Unit, 70 * Unit, s.current_humidity + d.noise)
    IN  [s |-> [s EXCEPT !.current_humidity = h], value |-> Round(h, 2)]

\* CO2Sensor.read without the clamp of line 88
CO2Sensor_read_unclamped(s, d) ==
    LET target == (s.base_co2 \div 10) * s.occupancy_multiplier
        c == s.current_co2 + (target - s.current_co2) \div 10 + d.noise
    IN  [s |-> [s EXCEPT !.current_co2 = c], value |-> Round(c, 2)]

CO2Sensor_read(s, d) ==
    LET target == (s.base_co2 \div 10) * s.occupancy_multiplier
        c == Clamp(400 * Unit, 2000 * Unit,
                   s.current_co2 + (target - s.current_co2) \div 10 + d.noise)
    IN  [s |-> [s EXCEPT !.current_co2 = c], value |-> Round(c, 2)]

\* set_occupancy moving the level to the new target at once
CO2Sensor_set_occupancy_jump(s, count) ==
    [s EXCEPT !.occupancy_multiplier = 10 + count,
              !.current_co2 = (s.base_co2 \div 10) * (10 + count)]

\* occupancy_multiplier = 1.0 + count * 0.1, in tenths
CO2Sensor_set_occupancy(s, count) ==
    [s EXCEPT !.occupancy_multiplier = 10 + count]

AirQualitySensor_read(s, d) ==
    LET a == Clamp(0, 100 * Unit, s.current_aqi + d.noise)
    IN  [s |-> [s EXCEPT !.current_aqi = a], value |-> Round(a, 2)]

\* LightSensor.read drawing the level for the state it had before the flip
LightSensor_read_before_flip(s, d) ==
    LET on == IF d.flip THEN ~s.is_on ELSE s.is_on
        lux == IF s.is_on THEN d.lux_on ELSE d.lux_off
    IN  [s |-> [s EXCEPT !.is_on = on, !.lux_level = lux], value |-> Round(lux, 2)]

LightSensor_read(s, d) ==
    LET on == IF d.flip THEN ~s.is_on ELSE s.is_on
        lux == IF on THEN d.lux_on ELSE d.lux_off
    IN  [s |-> [s EXCEPT !.is_on = on, !.lux_level = lux], value |-> Round(lux, 2)]

\* EnergySensor.read taking the rate off the total instead of adding it
EnergySensor_read_draining(s, d) ==
    LET e == s.cumulative_kwh - s.consumption_rate
    IN  [s |-> [s EXCEPT !.cumulative_kwh = e], value |-> Round(e, 5)]

EnergySensor_read(s, d) ==
    LET e == s.cumulative_kwh + s.consumption_rate
    IN  [s |-> [s EXCEPT !.cumulative_kwh = e], value |-> Round(e, 5)]

MotionSensor_read(s, d) ==
    LET m == IF d.flip THEN ~s.motion_detected ELSE s.motion_detected
    IN  [s |-> [s EXCEPT !.motion_detected = m], value |-> IF m THEN Unit ELSE 0]

\* OccupancySensor.read without the clamp of line 169
OccupancySensor_read_unclamped(s, d) ==
    LET c == s.current_count + d.change
    IN  [s |-> [s EXCEPT !.current_count = c], value |-> c * Unit]

OccupancySensor_read(s, d) ==
    LET c == Clamp(0, s.max_occupancy, s.current_count + d.change)
    IN  [s |-> [s EXCEPT !.current_count = c], value |-> c * Unit]

\* the draws one read() of sensor s makes
Draws(s) ==
    CASE s.kind = "temperature" ->
            [noise : TempNoiseDraws, reset : {FALSE}, drift : {s.drift_rate}]
            \cup [noise : TempNoiseDraws, reset : {TRUE}, drift : DriftDraws]
      [] s.kind = "humidity"    -> [noise : HumidityNoiseDraws]
      [] s.kind = "co2"         -> [noise : CO2NoiseDraws]
      [] s.kind = "air_quality" -> [noise : AqiNoiseDraws]
      [] s.kind = "light"       ->
            [flip : BOOLEAN, lux_on : LuxOnDraws, lux_off : LuxOffDraws]
      [] s.kind = "energy"      -> {[none |-> TRUE]}
      [] s.kind = "motion"      -> [flip : BOOLEAN]
      [] s.kind = "occupancy"   -> [change : OccupancyChangeDraws]

\* dynamic dispatch of the abstract Sensor.read
read(s, d) ==
    CASE s.kind = "temperature" -> TemperatureSensor_read(s, d)
      [] s.kind = "humidity"    -> HumiditySensor_read(s, d)
      [] s.kind = "co2"         -> CO2Sensor_read(s, d)
      [] s.kind = "air_quality" -> AirQualitySensor_read(s, d)
      [] s.kind = "light"       -> LightSensor_read(s, d)
      [] s.kind = "energy"      -> EnergySensor_read(s, d)
      [] s.kind = "motion"      -> MotionSensor_read(s, d)
      [] s.kind = "occupancy"   -> OccupancySensor_read(s, d)

\* Sensor.get_value returning read() without keeping it in last_value
get_value_unrecorded(s, d) ==
    LET r == read(s, d)
    IN  [s |-> r.s, value |-> r.value]

\* Sensor.get_value: self.last_value = self.read(); return self.last_value
get_value(s, d) ==
    LET r == read(s, d)
    IN  [s |-> [r.s EXCEPT !.last_value = r.value], value |-> r.value]

-----------------------------------------------------------------------------
(* The state before SimulatorCoordinator.run: nothing set up, no loop started *)

Loops == {"bacnet", "modbus"}

NoError == [exception |-> "none", message |-> <<>>]

\* SimulatorCoordinator.__init__ has returned: the configuration is loaded
Loaded ==
    /\ sensors_data = <<>>
    /\ loaded = <<>>
    /\ startup = [phase |-> "constructed", error |-> NoError]

NoSnapshot == [room_id |-> "none"]

NoIteration ==
    [number |-> 0, attempted |-> <<>>, published |-> <<>>, failures |-> {},
     interrupted |-> FALSE]

\* no iteration has reached the end of its for-loop
NoTiming == [elapsed |-> None, sleep_time |-> None, slept |-> None, warned |-> FALSE]

\* SensorSimulator.run has not been called
NoRun ==
    /\ shutdown_flag = FALSE
    /\ message_count = 0
    /\ run = [pc |-> "init", room |-> 0]
    /\ iteration = NoIteration
    /\ timing = NoTiming

\* the telemetry process is another program: here it has no rooms
NoTelemetry ==
    /\ rooms = <<>>
    /\ telemetry = NoSnapshot
    /\ regimes = <<>>
    /\ NoRun

NoRead == [table |-> "none", key |-> 0, value |-> None]

\* a loop that awaits no sleep: not started, or inside a pass
NoPacing == [elapsed |-> None, sleep_time |-> None, logged |-> "none"]

Idle ==
    /\ bacnet_objects = <<>>
    /\ hr = <<>>
    /\ pc = [l \in Loops |-> "init"]
    /\ idx = [l \in Loops |-> 0]
    /\ outcome = [l \in Loops |-> "none"]
    /\ refreshed = [l \in Loops |-> {}]
    /\ failed = [l \in Loops |-> {}]
    /\ passes = [l \in Loops |-> 0]
    /\ written = [l \in Loops |-> <<>>]
    /\ pacing = [l \in Loops |-> NoPacing]
    /\ lastRead = NoRead
    /\ calls = 0

-----------------------------------------------------------------------------
(* The protocol value stores of main.py.                                   *)
(*                                                                         *)
(* A dict is the sequence of its items, in insertion order, which is the   *)
(* order its iteration follows.  The update loops and the protocol stacks  *)
(* are coroutines of one asyncio event loop: a coroutine runs until its    *)
(* next await, so between the start of a pass and the sleep that ends it   *)
(* no other coroutine runs.                                                *)

Keys(items) == {items[i].key : i \in 1..Len(items)}

Items(l) == IF l = "bacnet" THEN bacnet_sensors ELSE modbus_sensors

\* a coroutine is between two awaits
Busy == \E l \in Loops : pc[l] \in {"setup", "pass"}

\* ModbusSequentialDataBlock(0, [0] * 1000)
NumRegisters == 1000

\* error answer of a protocol stack for an object or register it does not hold
NotFound == -3

\* int(value * 100)
Scaled(value) == value \div (Unit \div 100)

\* the registers hold what was last set, and 0 where nothing was set
getValues(register) ==
    IF register \in DOMAIN hr THEN hr[register] ELSE 0

\* avo.presentValue = Real(new_value), stored on another object of the table
StorePresentValueElsewhere(objects, object_id, new_value) ==
    LET other == IF \E k \in DOMAIN objects : k # object_id
                 THEN CHOOSE k \in DOMAIN objects : k # object_id
                 ELSE object_id
    IN  (other :> new_value) @@ objects

\* avo.presentValue = Real(new_value); at setup the avo is created with it
StorePresentValue(objects, object_id, new_value) ==
    (object_id :> new_value) @@ objects

\* self.datastore[0].setValues(3, register, [scaled_value])
setValues(block, register, scaled_value) ==
    (register :> scaled_value) @@ block

\* the record of the last two values stored under a key
Record(w, key, v) ==
    (key :> [old |-> IF key \in DOMAIN w THEN w[key].new ELSE None, new |-> v]) @@ w

\* the except clause of an update loop, taken as if the exception left the loop
except_Exception_uncaught == "crashed"

\* except Exception: logger.error(...); await asyncio.sleep(1)
except_Exception == "backoff"

\* await asyncio.sleep(0.1), in milliseconds
UpdateSleep == 100

\* await asyncio.sleep(1) of the except clause, in milliseconds
BackoffSleep == 1000

\* the time the for-loop of a pass can take, in milliseconds
PassTimes == {20, 130}

\* update_loop: await asyncio.sleep(0.1) after a pass that took `elapsed`
update_loop_sleep(elapsed) ==
    [elapsed |-> elapsed, sleep_time |-> UpdateSleep, logged |-> "none"]

\* what can happen to one entry's update
Faults == {"ok", "read_raises", "write_fails"}

\* SimulatorCoordinator.run: await self.bacnet_sim.setup() starts
RunStart ==
    /\ startup.phase = "constructed"
    /\ pc["bacnet"] = "init"
    /\ pc' = [pc EXCEPT !["bacnet"] = "setup"]
    /\ idx' = [idx EXCEPT !["bacnet"] = 1]
    /\ UNCHANGED <<sensors, bacnet_sensors, modbus_sensors, bacnet_objects, hr,
                   outcome, refreshed, failed, passes, written, pacing, lastRead, calls,
                   loadVars, telemetryVars>>

\* BACnetSimulator.setup: one iteration of its for-loop, and its end
BACnetSimulator_setup ==
    /\ pc["bacnet"] = "setup"
    /\ IF idx["bacnet"] <= Len(bacnet_sensors)
       THEN LET item == bacnet_sensors[idx["bacnet"]]
            IN  \E d \in Draws(sensors[item.sensor]) :
                  LET r == get_value(sensors[item.sensor], d)
                  IN  /\ sensors' = [sensors EXCEPT ![item.sensor] = r.s]
                      /\ bacnet_objects' =
                            StorePresentValue(bacnet_objects, item.key, r.value)
                      /\ written' = [written EXCEPT
                            !["bacnet"] = Record(@, item.key, r.value)]
                      /\ idx' = [idx EXCEPT !["bacnet"] = @ + 1]
                      /\ pc' = pc
       ELSE /\ pc' = [pc EXCEPT !["bacnet"] = "start"]
            /\ UNCHANGED <<sensors, bacnet_objects, written, idx>>
    /\ UNCHANGED <<bacnet_sensors, modbus_sensors, hr, outcome, refreshed, failed,
                   passes, pacing, lastRead, calls,
                   loadVars, telemetryVars>>

\* ModbusSimulator.run_server up to its await: setup(), then the update loop
\* is created as a task.  Its task runs after the first pass of the BACnet loop.
ModbusSimulator_setup ==
    /\ pc["modbus"] = "init"
    /\ pc["bacnet"] \in {"sleep", "backoff", "crashed"}
    /\ hr' = <<>>
    /\ pc' = [pc EXCEPT !["modbus"] = "start"]
    /\ UNCHANGED <<sensors, bacnet_sensors, modbus_sensors, bacnet_objects, idx,
                   outcome, refreshed, failed, passes, written, pacing, lastRead, calls,
                   loadVars, telemetryVars>>

\* an update loop enters its try block: created task scheduled, or sleep over
BeginPass(l) ==
    /\ pc[l] \in {"start", "sleep", "backoff"}
    /\ ~Busy
    /\ pc' = [pc EXCEPT ![l] = "pass"]
    /\ idx' = [idx EXCEPT ![l] = 1]
    /\ refreshed' = [refreshed EXCEPT ![l] = {}]
    /\ failed' = [failed EXCEPT ![l] = {}]
    /\ pacing' = [pacing EXCEPT ![l] = NoPacing]
    /\ UNCHANGED <<sensors, bacnet_sensors, modbus_sensors, bacnet_objects, hr,
                   outcome, written, lastRead, calls,
                   loadVars, telemetryVars>>

\* the exception of an entry's update reaches the except clause of the loop
Raise(l, key) ==
    /\ pc' = [pc EXCEPT ![l] = except_Exception]
    /\ outcome' = [outcome EXCEPT ![l] = "aborted"]
    /\ failed' = [failed EXCEPT ![l] = @ \cup {key}]
    /\ pacing' = [pacing EXCEPT ![l] = [elapsed |-> None, sleep_time |-> BackoffSleep,
                                        logged |-> "error"]]
    /\ UNCHANGED <<idx, refreshed>>

\* BACnetSimulator.update_loop: one iteration of the for-loop of a pass
BACnetSimulator_update_entry ==
    /\ pc["bacnet"] = "pass"
    /\ idx["bacnet"] <= Len(bacnet_sensors)
    /\ LET item == bacnet_sensors[idx["bacnet"]]
       IN  \E f \in Faults, d \in Draws(sensors[item.sensor]) :
             LET r == get_value(sensors[item.sensor], d)
             IN  /\ sensors' = IF f = "read_raises" THEN sensors
                               ELSE [sensors EXCEPT ![item.sensor] = r.s]
                 /\ IF f = "ok"
                    THEN /\ bacnet_objects' =
                               StorePresentValue(bacnet_objects, item.key, r.value)
                         /\ written' = [written EXCEPT
                               !["bacnet"] = Record(@, item.key, r.value)]
                         /\ idx' = [idx EXCEPT !["bacnet"] = @ + 1]
                         /\ refreshed' = [refreshed EXCEPT !["bacnet"] = @ \cup {item.key}]
                         /\ UNCHANGED <<pc, outcome, failed, pacing>>
                    ELSE /\ Raise("bacnet", item.key)
                         /\ UNCHANGED <<bacnet_objects, written>>
    /\ UNCHANGED <<bacnet_sensors, modbus_sensors, hr, passes, lastRead, calls,
                   loadVars, telemetryVars>>

\* ModbusSimulator.update_loop: one iteration of the for-loop of a pass
ModbusSimulator_update_entry ==
    /\ pc["modbus"] = "pass"
    /\ idx["modbus"] <= Len(modbus_sensors)
    /\ LET item == modbus_sensors[idx["modbus"]]
       IN  \E f \in Faults, d \in Draws(sensors[item.sensor]) :
             LET r == get_value(sensors[item.sensor], d)
                 scaled_value == Scaled(r.value)
             IN  /\ sensors' = IF f = "read_raises" THEN sensors
                               ELSE [sensors EXCEPT ![item.sensor] = r.s]
                 /\ IF f = "ok"
                    THEN /\ hr' = setValues(hr, item.key, scaled_value)
                         /\ written' = [written EXCEPT
                               !["modbus"] = Record(@, item.key, scaled_value)]
                         /\ idx' = [idx EXCEPT !["modbus"] = @ + 1]
                         /\ refreshed' = [refreshed EXCEPT !["modbus"] = @ \cup {item.key}]
                         /\ UNCHANGED <<pc, outcome, failed, pacing>>
                    ELSE /\ Raise("modbus", item.key)
                         /\ UNCHANGED <<hr, written>>
    /\ UNCHANGED <<bacnet_sensors, modbus_sensors, bacnet_objects, passes,
                   lastRead, calls,
                   loadVars, telemetryVars>>

\* the for-loop of a pass is over: await asyncio.sleep(0.1)
EndPass(l) ==
    /\ pc[l] = "pass"
    /\ idx[l] > Len(Items(l))
    /\ pc' = [pc EXCEPT ![l] = "sleep"]
    /\ outcome' = [outcome EXCEPT ![l] = "completed"]
    /\ \E elapsed \in PassTimes :
          pacing' = [pacing EXCEPT ![l] = update_loop_sleep(elapsed)]
    /\ UNCHANGED <<sensors, bacnet_sensors, modbus_sensors, bacnet_objects, hr,
                   idx, refreshed, failed, passes, written, lastRead, calls,
                   loadVars, telemetryVars>>

\* object ids and register addresses a client asks for
ObjectIds == {5, 6}

Registers == {3, 7}

\* the BACnet stack answers a ReadProperty of presentValue from the application's objects
BACnetRead ==
    /\ pc["bacnet"] \notin {"init", "setup"}
    /\ ~Busy
    /\ \E object_id \in ObjectIds :
          lastRead' = [table |-> "bacnet", key |-> object_id,
                       value |-> IF object_id \in DOMAIN bacnet_objects
                                 THEN bacnet_objects[object_id] ELSE NotFound]
    /\ UNCHANGED <<sensors, storeVars, calls,
                   loadVars, telemetryVars>>

\* the Modbus stack answers a read of one holding register from the datastore
ModbusRead ==
    /\ pc["modbus"] # "init"
    /\ ~Busy
    /\ \E register \in Registers :
          lastRead' = [table |-> "modbus", key |-> register,
                       value |-> IF register \in 0..(NumRegisters - 1)
                                 THEN getValues(register) ELSE NotFound]
    /\ UNCHANGED <<sensors, storeVars, calls,
                   loadVars, telemetryVars>>

-----------------------------------------------------------------------------
(* The simulator of main.py: configuration loaded, then run() *)

\* passes each update loop begins
MaxPasses == 1

Item(k, s) == [key |-> k, sensor |-> s]

\* what _load_config leaves: the sensors, and the two protocol maps
Configs ==
    {[sensors |-> ("t1" :> TemperatureSensor(dr)) @@ ("c1" :> CO2Sensor),
      bacnet  |-> <<Item(5, "t1"), Item(9, "c1")>>,
      modbus  |-> <<>>] : dr \in DriftDraws}
    \cup
    {[sensors |-> ("l1" :> LightSensor(on)) @@ ("e1" :> EnergySensor(e, r)),
      bacnet  |-> <<>>,
      modbus  |-> <<Item(0, "l1"), Item(3, "e1")>>] :
        on \in BOOLEAN, e \in {123456, 500000}, r \in {222, 500}}
    \cup
    {[sensors |-> ("h1" :> HumiditySensor) @@ ("m1" :> MotionSensor),
      bacnet  |-> <<Item(5, "h1")>>,
      modbus  |-> <<Item(3, "m1")>>]}

Init ==
    /\ \E c \in Configs :
          /\ sensors = c.sensors
          /\ bacnet_sensors = c.bacnet
          /\ modbus_sensors = c.modbus
    /\ Idle
    /\ Loaded
    /\ NoTelemetry

\* a loop begins its next pass
Wake ==
    \E l \in Loops :
        /\ passes[l] < MaxPasses
        /\ BeginPass(l)
        /\ passes' = [passes EXCEPT ![l] = @ + 1]

Finish == \E l \in Loops : EndPass(l)

Next ==
    \/ RunStart
    \/ BACnetSimulator_setup
    \/ ModbusSimulator_setup
    \/ Wake
    \/ BACnetSimulator_update_entry
    \/ ModbusSimulator_update_entry
    \/ Finish
    \/ BACnetRead
    \/ ModbusRead

Spec == Init /\ [][Next]_vars

\* C1: a failure of one entry during a refresh pass does not abort the pass:
\* when the pass is over, every bound entry other than the failing one has been
\* refreshed in that pass.
C1_FailureDoesNotAbortPass ==
    \A l \in Loops :
        pc[l] \in {"sleep", "backoff"} =>
            (Keys(Items(l)) \ failed[l]) \subseteq refreshed[l]

\* C3: a reader is given, for a bound key that has been stored, the value of
\* the previous or of the current update of that same key, and nothing else.
C3_ReadersSeeOldOrNew ==
    [][\A t \in Loops :
          (/\ lastRead' # lastRead
           /\ lastRead'.table = t
           /\ lastRead'.key \in DOMAIN written[t])
          => lastRead'.value \in {written[t][lastRead'.key].old,
                                  written[t][lastRead'.key].new}]_vars

\* a reader was served after a pass that refreshed object 5 and then failed
C3_Witness ==
    /\ lastRead.table = "bacnet"
    /\ lastRead.key = 5
    /\ outcome["bacnet"] = "aborted"
    /\ 5 \in refreshed["bacnet"]
    /\ lastRead.value = written["bacnet"][5].new
    /\ lastRead.value # written["bacnet"][5].old

\* C4: a read of an object id or register address that the configuration did
\* not bind is answered with the not-found signal, never with a number.
C4_UnboundReadNotFound ==
    \A t \in Loops :
        (lastRead.table = t /\ lastRead.key \notin Keys(Items(t)))
        => lastRead.value \in {NotFound, NaN}

\* C6: after setup of the object table and after every completed pass, the
\* cached value of each bound key is the bound sensor's last_value (in a
\* register: int(last_value * 100)); a temperature sensor bound to object 5
\* yields a cached value in [18,28].
C6_CacheIsLastValue ==
    /\ pc["bacnet"] \in {"start", "sleep"} =>
          \A i \in 1..Len(bacnet_sensors) :
              LET item == bacnet_sensors[i]
                  s == sensors[item.sensor]
              IN  /\ item.key \in DOMAIN bacnet_objects
                  /\ bacnet_objects[item.key] = s.last_value
                  /\ s.last_value # None
                  /\ (s.kind = "temperature" /\ item.key = 5) =>
                        /\ 18 * Unit <= bacnet_objects[5]
                        /\ bacnet_objects[5] <= 28 * Unit
    /\ pc["modbus"] = "sleep" =>
          \A i \in 1..Len(modbus_sensors) :
              LET item == modbus_sensors[i]
                  s == sensors[item.sensor]
              IN  /\ s.last_value # None
                  /\ getValues(item.key) * (Unit \div 100) <= s.last_value
                  /\ s.last_value < (getValues(item.key) + 1) * (Unit \div 100)

\* both tables hold the values of a completed pass
C6_Witness ==
    /\ pc["bacnet"] = "sleep"
    /\ pc["modbus"] = "sleep"
    /\ Len(bacnet_sensors) > 0
    /\ Len(modbus_sensors) > 0
    /\ sensors[bacnet_sensors[1].sensor].last_value = bacnet_objects[5]
    /\ getValues(3) = Scaled(Unit)

\* round(value * 100), ties away from zero
RoundScaled(value) == (value + (Unit \div 100) \div 2) \div (Unit \div 100)

Abs(x) == IF x < 0 THEN -x ELSE x

\* C7: after a completed pass the register of each bound sensor holds
\* round(v * 100) for the sensor's value v, and register / 100 is within
\* 0.005 of v.
C7_RegisterRoundTrip ==
    pc["modbus"] = "sleep" =>
        \A i \in 1..Len(modbus_sensors) :
            LET item == modbus_sensors[i]
                v == sensors[item.sensor].last_value
            IN  /\ getValues(item.key) = RoundScaled(v)
                /\ Abs(getValues(item.key) * (Unit \div 100) - v) <= (Unit \div 100) \div 2

-----------------------------------------------------------------------------
(* The update loops left to run for ever.  The asyncio event loop runs     *)
(* every ready task in turn and every sleep ends, so a loop that can begin *)
(* a pass again and again does begin one, and a pass under way goes on.    *)

LiveInit ==
    /\ sensors = ("m1" :> MotionSensor) @@ ("m2" :> MotionSensor)
    /\ bacnet_sensors = <<Item(5, "m1")>>
    /\ modbus_sensors = <<Item(3, "m2")>>
    /\ Idle
    /\ Loaded
    /\ NoTelemetry

LiveWake(l) == BeginPass(l) /\ UNCHANGED passes

LiveBegin == \E l \in Loops : LiveWake(l)

LiveNext ==
    \/ RunStart
    \/ BACnetSimulator_setup
    \/ ModbusSimulator_setup
    \/ LiveBegin
    \/ BACnetSimulator_update_entry
    \/ ModbusSimulator_update_entry
    \/ Finish
    \/ BACnetRead
    \/ ModbusRead

LiveSpec ==
    /\ LiveInit
    /\ [][LiveNext]_vars
    /\ WF_vars(RunStart)
    /\ WF_vars(BACnetSimulator_setup)
    /\ WF_vars(ModbusSimulator_setup)
    /\ WF_vars(BACnetSimulator_update_entry)
    /\ WF_vars(ModbusSimulator_update_entry)
    /\ WF_vars(Finish)
    /\ \A l \in Loops : SF_vars(LiveWake(l))

\* C2: an exception inside a pass never ends an update loop: the loop backs
\* off (the 1 second sleep) and a later pass begins.
C2_LoopSurvivesFailure ==
    /\ [](\A l \in Loops :
            (outcome[l] = "aborted" /\ pc[l] # "pass") => pc[l] = "backoff")
    /\ (outcome["bacnet"] = "aborted" /\ pc["bacnet"] # "pass") ~> (pc["bacnet"] = "pass")
    /\ (outcome["modbus"] = "aborted" /\ pc["modbus"] # "pass") ~> (pc["modbus"] = "pass")

\* each loop has begun a pass after one that failed
C2_Witness ==
    /\ pc["modbus"] = "pass"
    /\ outcome["modbus"] = "aborted"
    /\ outcome["bacnet"] = "aborted"

-----------------------------------------------------------------------------
(* The register table late in a run.  The initial state is a state the     *)
(* simulator is in after 131068 completed passes of the Modbus loop: an    *)
(* energy meter constructed with cumulative_kwh = 0 and consumption_rate = *)
(* 0.005 has then reached 131068 * 0.005 = 655.34 kWh; the light sensor    *)
(* is on, the last pass has stored both, and the loop sleeps.              *)

\* passes of the Modbus loop from there on
RegMaxPasses == 5

RegInit ==
    /\ sensors =
          ("l1" :> [LightSensor(TRUE) EXCEPT !.lux_level = 45123700,
                                             !.last_value = 45124000])
          @@ ("e1" :> [EnergySensor(65534000, 500) EXCEPT !.last_value = 65534000])
    /\ bacnet_sensors = <<>>
    /\ modbus_sensors = <<Item(0, "l1"), Item(3, "e1")>>
    /\ bacnet_objects = <<>>
    /\ hr = (0 :> 45124) @@ (3 :> 65534)
    /\ pc = [l \in Loops |-> "sleep"]
    /\ idx = [l \in Loops |-> IF l = "bacnet" THEN 1 ELSE 3]
    /\ outcome = [l \in Loops |-> "completed"]
    /\ refreshed = [l \in Loops |-> IF l = "bacnet" THEN {} ELSE {0, 3}]
    /\ failed = [l \in Loops |-> {}]
    /\ passes = [l \in Loops |-> 0]
    /\ written = [l \in Loops |->
                    IF l = "bacnet" THEN <<>>
                    ELSE (0 :> [old |-> 45124, new |-> 45124])
                         @@ (3 :> [old |-> 65533, new |-> 65534])]
    /\ pacing = [l \in Loops |-> update_loop_sleep(20)]
    /\ lastRead = NoRead
    /\ calls = 0
    /\ Loaded
    /\ NoTelemetry

RegWake ==
    /\ passes["modbus"] < RegMaxPasses
    /\ BeginPass("modbus")
    /\ passes' = [passes EXCEPT !["modbus"] = @ + 1]

RegNext ==
    \/ RegWake
    \/ ModbusSimulator_update_entry
    \/ EndPass("modbus")
    \/ ModbusRead

RegSpec == RegInit /\ [][RegNext]_vars

\* C8: after any number of passes the scaled integer stored in a holding
\* register fits the 16-bit register.
C8_FitsRegister ==
    \A r \in DOMAIN hr : 0 <= hr[r] /\ hr[r] < 2^16

-----------------------------------------------------------------------------
(* The lightweight servers of sensors.py, serving reads from a sensor map *)

LiteInit ==
    /\ sensors = ("h1" :> HumiditySensor) @@ ("m1" :> MotionSensor)
    /\ bacnet_sensors = <<Item(5, "h1")>>
    /\ modbus_sensors = <<Item(3, "m1")>>
    /\ Idle
    /\ Loaded
    /\ NoTelemetry

Lookup(items, key) == (CHOOSE i \in 1..Len(items) : items[i].key = key)

\* BACnetServer.handle_read_request(object_id): the pair packed in the answer
BACnetServer_handle_read_request ==
    /\ \E object_id \in ObjectIds :
          IF object_id \in Keys(bacnet_sensors)
          THEN LET sid == bacnet_sensors[Lookup(bacnet_sensors, object_id)].sensor
               IN  \E d \in Draws(sensors[sid]) :
                     LET r == get_value(sensors[sid], d)
                     IN  /\ sensors' = [sensors EXCEPT ![sid] = r.s]
                         /\ lastRead' = [table |-> "bacnet", key |-> object_id,
                                         value |-> r.value]
          ELSE /\ lastRead' = [table |-> "bacnet", key |-> object_id, value |-> NaN]
               /\ UNCHANGED sensors
    /\ UNCHANGED <<storeVars, calls,
                   loadVars, telemetryVars>>

\* ModbusServer.handle_read_request(register): the pair packed in the answer
ModbusServer_handle_read_request ==
    /\ \E register \in Registers :
          IF register \in Keys(modbus_sensors)
          THEN LET sid == modbus_sensors[Lookup(modbus_sensors, register)].sensor
               IN  \E d \in Draws(sensors[sid]) :
                     LET r == get_value(sensors[sid], d)
                     IN  /\ sensors' = [sensors EXCEPT ![sid] = r.s]
                         /\ lastRead' = [table |-> "modbus", key |-> register,
                                         value |-> r.value]
          ELSE /\ lastRead' = [table |-> "modbus", key |-> register, value |-> NaN]
               /\ UNCHANGED sensors
    /\ UNCHANGED <<storeVars, calls,
                   loadVars, telemetryVars>>

LiteNext ==
    \/ BACnetServer_handle_read_request
    \/ ModbusServer_handle_read_request

LiteSpec == LiteInit /\ [][LiteNext]_vars

\* C5: a read of a bound address returns the last cached value and does not
\* advance the bound sensor: the step that serves it leaves every sensor as
\* it was, and a second read of the address returns what the first returned.
C5_ReadDoesNotAdvance ==
    [][\A t \in Loops :
          (lastRead'.table = t /\ lastRead'.key \in Keys(Items(t)))
          => /\ sensors' = sensors
             /\ (lastRead.table = t /\ lastRead.key = lastRead'.key)
                   => lastRead'.value = lastRead.value]_vars

-----------------------------------------------------------------------------
(* One sensor instance on its own, called any number of times *)

\* get_value calls made to a CO2 or energy sensor in the single-sensor runs
MaxCalls == 5

\* set_occupancy arguments: none, a few, and counts that put the target far
\* below 400 and far above 2000
OccupancyCounts == {-400, 0, 3, 390}

Constructed ==
    {TemperatureSensor(dr) : dr \in DriftDraws}
    \cup {HumiditySensor, CO2Sensor, MotionSensor}
    \cup {AirQualitySensor(a) : a \in AqiStartDraws}
    \cup {LightSensor(on) : on \in BOOLEAN}
    \cup {EnergySensor(e, r) : e \in EnergyStartDraws, r \in EnergyRateDraws}
    \cup {OccupancySensor(c) : c \in 0..15}

Unlimited(s) == s.kind \in {"co2", "energy"}

SensorInit ==
    /\ \E s \in Constructed : sensors = [i \in {"s1"} |-> s]
    /\ bacnet_sensors = <<>>
    /\ modbus_sensors = <<>>
    /\ Idle
    /\ Loaded
    /\ NoTelemetry

\* one call of sensor.get_value()
SensorGetValue ==
    /\ Unlimited(sensors["s1"]) => calls < MaxCalls
    /\ \E d \in Draws(sensors["s1"]) :
          sensors' = [sensors EXCEPT !["s1"] = get_value(@, d).s]
    /\ calls' = IF Unlimited(sensors["s1"]) THEN calls + 1 ELSE calls
    /\ UNCHANGED <<storeVars, lastRead, loadVars, telemetryVars>>

\* one call of co2_sensor.set_occupancy(count)
SensorSetOccupancy ==
    /\ sensors["s1"].kind = "co2"
    /\ \E count \in OccupancyCounts :
          sensors' = [sensors EXCEPT !["s1"] = CO2Sensor_set_occupancy(@, count)]
    /\ UNCHANGED <<storeVars, lastRead, calls,
                   loadVars, telemetryVars>>

SensorNext == SensorGetValue \/ SensorSetOccupancy

SensorSpec == SensorInit /\ [][SensorNext]_vars

\* C9: for any sequence of read()/get_value() calls, the output of a
\* TemperatureSensor is in [18,28], of a HumiditySensor in [30,70] and of an
\* AirQualitySensor in [0,100].
C9_ClampedOutputs ==
    \A i \in DOMAIN sensors :
        LET s == sensors[i]
        IN  s.last_value # None =>
              /\ s.kind = "temperature" =>
                    /\ 18 * Unit <= s.last_value /\ s.last_value <= 28 * Unit
                    /\ s.last_value = Round(s.current_temp, 2)
              /\ s.kind = "humidity" =>
                    /\ 30 * Unit <= s.last_value /\ s.last_value <= 70 * Unit
              /\ s.kind = "air_quality" =>
                    /\ 0 <= s.last_value /\ s.last_value <= 100 * Unit

\* repeated reads have driven a temperature sensor onto its lower limit
C9_Witness ==
    \E i \in DOMAIN sensors :
        /\ sensors[i].kind = "temperature"
        /\ sensors[i].last_value = 18 * Unit

\* C10: the output of a CO2Sensor is in [400,2000] after any interleaving of
\* read() and set_occupancy(count) calls, whatever the count.
C10_CO2Clamped ==
    \A i \in DOMAIN sensors :
        LET s == sensors[i]
        IN  (s.kind = "co2" /\ s.last_value # None) =>
              /\ 400 * Unit <= s.last_value /\ s.last_value <= 2000 * Unit

\* a read made with the target far above the range returned the upper limit
C10_Witness ==
    \E i \in DOMAIN sensors :
        /\ sensors[i].kind = "co2"
        /\ sensors[i].occupancy_multiplier > 100
        /\ sensors[i].last_value = 2000 * Unit

\* C11: the output of an OccupancySensor is a whole number in
\* [0, max_occupancy], its count is in that range from construction on, and
\* a read returns at most 1 more or less than the count before it, which is
\* what the read before it returned.
C11_OccupancyWalk ==
    /\ [](\A i \in DOMAIN sensors :
            LET s == sensors[i]
            IN  s.kind = "occupancy" =>
                  /\ s.current_count \in 0..s.max_occupancy
                  /\ s.last_value # None =>
                        /\ s.last_value = s.current_count * Unit
                        /\ s.last_value % Unit = 0)
    /\ [][\A i \in DOMAIN sensors :
            (sensors[i].kind = "occupancy" /\ sensors'[i] # sensors[i]) =>
               /\ Abs(sensors'[i].last_value - sensors[i].current_count * Unit) <= Unit
               /\ sensors[i].last_value # None =>
                     Abs(sensors'[i].last_value - sensors[i].last_value) <= Unit]_vars

\* a read made at the upper limit returned the upper limit
C11_Witness ==
    \E i \in DOMAIN sensors :
        /\ sensors[i].kind = "occupancy"
        /\ sensors[i].last_value = sensors[i].max_occupancy * Unit

\* C12: the output of an EnergySensor never decreases from one call to the
\* next: every read adds the rate drawn at construction, which lies in
\* [0.001, 0.005] and never changes, to the cumulative total.
C12_EnergyNonDecreasing ==
    [][\A i \in DOMAIN sensors :
          (sensors[i].kind = "energy" /\ sensors'[i] # sensors[i]) =>
             /\ sensors'[i].consumption_rate = sensors[i].consumption_rate
             /\ Unit \div 1000 <= sensors[i].consumption_rate
             /\ sensors[i].consumption_rate <= 5 * (Unit \div 1000)
             /\ sensors'[i].cumulative_kwh
                   = sensors[i].cumulative_kwh + sensors[i].consumption_rate
             /\ sensors[i].last_value # None =>
                   sensors'[i].last_value >= sensors[i].last_value]_vars

\* an energy sensor has been read several times
C12_Witness ==
    \E i \in DOMAIN sensors :
        /\ sensors[i].kind = "energy"
        /\ calls >= 3
        /\ sensors[i].last_value
              = sensors[i].cumulative_kwh

-----------------------------------------------------------------------------
(* Room profiles: room_profiles.py.                                         *)
(*                                                                         *)
(* A snapshot keeps the fields whose value a regime or a bound decides:    *)
(* room_id, co2_ppm, occupancy_count, motion_detected, air_quality_index.  *)
(* Timers and CO2 are counted in 1/Unit like the sensor values.            *)

\* the logical step of the timers: 0.5
Half == Unit \div 2

\* random.random(), in hundredths
RandomDraws == {0, 50, 99}

\* where in its range a random.randint(a, b) falls, in percent of b - a
RandintDraws == {0, 100}

\* datetime.utcnow().hour
HourDraws == {8, 9, 17, 18}

\* random.randint(a, b) that fell at u percent of its range
randint(a, b, u) == a + (u * (b - a)) \div 100

\* RoomProfile._add_noise: value + value * (noise_percent / 100) * (r - 0.5) * 2
add_noise(value, noise_percent, r) ==
    value + ((value \div 1000) * noise_percent * (2 * r - 100)) \div 10

\* 100 - int(co2) with neither step nor floor
air_quality_per_ppm(co2, floor, step) == 100 - co2 \div Unit

\* max(floor, 100 - int(co2 / step))
air_quality(co2, floor, step) == Max(floor, 100 - co2 \div (step * Unit))

\* the dict get_telemetry returns
Snapshot(room, co2, light, occupancy, motion, aqi) ==
    [room_id |-> room.room_id, co2_ppm |-> co2 \div Unit, light_lux |-> light,
     occupancy_count |-> occupancy, motion_detected |-> motion,
     air_quality_index |-> aqi]

ServerRoom == [room_id |-> "01", room_type |-> "server", time_offset |-> 0]

ConferenceRoom ==
    [room_id |-> "02", room_type |-> "conference", time_offset |-> 0,
     meeting_active |-> FALSE, meeting_timer |-> 0]

StorageCloset == [room_id |-> "03", room_type |-> "storage", time_offset |-> 0]

OpenOffice == [room_id |-> "04", room_type |-> "office", time_offset |-> 0]

Kitchen ==
    [room_id |-> "05", room_type |-> "kitchen", time_offset |-> 0,
     cooking_active |-> FALSE, cooking_timer |-> 0]

LabWorkshop == [room_id |-> "06", room_type |-> "lab", time_offset |-> 0]

BreakRoom == [room_id |-> "07", room_type |-> "breakroom", time_offset |-> 0]

ExecutiveOffice == [room_id |-> "08", room_type |-> "executive", time_offset |-> 0]

get_all_room_profiles ==
    <<ServerRoom, ConferenceRoom, StorageCloset, OpenOffice, Kitchen,
      LabWorkshop, BreakRoom, ExecutiveOffice>>

\* RoomProfile._time_based_pattern: the state it changes
time_based_pattern(room) == [room EXCEPT !.time_offset = @ + Half]

ServerRoom_get_telemetry(room, d) ==
    LET co2 == add_noise(450 * Unit, 5, d.co2)
    IN  [room |-> room,
         telemetry |-> Snapshot(room, co2, 0, 0, FALSE, randint(90, 100, d.aq))]

\* ConferenceRoom.get_telemetry taking the regime from the timer before it advances
ConferenceRoom_get_telemetry_stale(room, d) ==
    LET advanced == room.meeting_timer + Half
        timer == IF advanced > 3600 * Unit THEN 0 ELSE advanced
        active == (room.meeting_timer % (3600 * Unit)) < 900 * Unit
        co2 == IF active THEN add_noise(1200 * Unit, 15, d.co2)
                         ELSE add_noise(500 * Unit, 10, d.co2)
    IN  [room |-> [room EXCEPT !.meeting_timer = timer, !.meeting_active = active],
         telemetry |->
            Snapshot(room, co2,
                     IF active THEN randint(400, 600, d.light) ELSE randint(0, 100, d.light),
                     IF active THEN randint(6, 12, d.occ) ELSE 0,
                     IF active THEN TRUE ELSE d.motion < 10,
                     air_quality(co2, 50, 20))]

ConferenceRoom_get_telemetry(room, d) ==
    LET advanced == room.meeting_timer + Half
        timer == IF advanced > 3600 * Unit THEN 0 ELSE advanced
        active == (timer % (3600 * Unit)) < 900 * Unit
        co2 == IF active THEN add_noise(1200 * Unit, 15, d.co2)
                         ELSE add_noise(500 * Unit, 10, d.co2)
    IN  [room |-> [room EXCEPT !.meeting_timer = timer, !.meeting_active = active],
         telemetry |->
            Snapshot(room, co2,
                     IF active THEN randint(400, 600, d.light) ELSE randint(0, 100, d.light),
                     IF active THEN randint(6, 12, d.occ) ELSE 0,
                     IF active THEN TRUE ELSE d.motion < 10,
                     air_quality(co2, 50, 20))]

StorageCloset_get_telemetry(room, d) ==
    LET co2 == add_noise(400 * Unit, 3, d.co2)
    IN  [room |-> room,
         telemetry |-> Snapshot(room, co2, 0, 0, FALSE, randint(85, 95, d.aq))]

OpenOffice_get_telemetry(room, d) ==
    LET is_work_hours == 9 <= d.hour /\ d.hour <= 17
        co2 == IF is_work_hours THEN add_noise(800 * Unit, 12, d.co2)
                                ELSE add_noise(450 * Unit, 8, d.co2)
    IN  [room |-> IF is_work_hours THEN time_based_pattern(room) ELSE room,
         telemetry |->
            Snapshot(room, co2,
                     IF is_work_hours THEN randint(350, 500, d.light)
                                      ELSE randint(0, 50, d.light),
                     IF is_work_hours THEN randint(5, 8, d.occ) ELSE 0,
                     IF is_work_hours THEN TRUE ELSE d.motion < 5,
                     air_quality(co2, 60, 15))]

\* Kitchen.get_telemetry ending the episode only once the timer is below 0
Kitchen_get_telemetry_late_stop(room, d) ==
    LET start == d.start < 2
        active0 == start \/ room.cooking_active
        timer0 == IF start THEN randint(300, 900, d.timer) * Unit
                           ELSE room.cooking_timer
        timer == IF active0 THEN timer0 - Half ELSE timer0
        active == active0 /\ ~(timer < 0)
        co2 == IF active THEN add_noise(1000 * Unit, 20, d.co2)
                         ELSE add_noise(550 * Unit, 10, d.co2)
    IN  [room |-> [room EXCEPT !.cooking_active = active, !.cooking_timer = timer],
         telemetry |->
            Snapshot(room, co2,
                     IF active THEN randint(300, 500, d.light) ELSE randint(100, 300, d.light),
                     IF active THEN randint(1, 3, d.occ) ELSE randint(0, 1, d.occ),
                     IF active THEN TRUE ELSE d.motion < 30,
                     air_quality(co2, 40, 18))]

Kitchen_get_telemetry(room, d) ==
    LET start == d.start < 2
        active0 == start \/ room.cooking_active
        timer0 == IF start THEN randint(300, 900, d.timer) * Unit
                           ELSE room.cooking_timer
        timer == IF active0 THEN timer0 - Half ELSE timer0
        active == active0 /\ ~(timer <= 0)
        co2 == IF active THEN add_noise(1000 * Unit, 20, d.co2)
                         ELSE add_noise(550 * Unit, 10, d.co2)
    IN  [room |-> [room EXCEPT !.cooking_active = active, !.cooking_timer = timer],
         telemetry |->
            Snapshot(room, co2,
                     IF active THEN randint(300, 500, d.light) ELSE randint(100, 300, d.light),
                     IF active THEN randint(1, 3, d.occ) ELSE randint(0, 1, d.occ),
                     IF active THEN TRUE ELSE d.motion < 30,
                     air_quality(co2, 40, 18))]

LabWorkshop_get_telemetry(room, d) ==
    LET co2 == add_noise(900 * Unit, 30, d.co2)
    IN  [room |-> room,
         telemetry |->
            Snapshot(room, co2,
                     randint(200, 700, d.light),
                     randint(0, 4, d.occ), d.motion < 60,
                     IF d.poor < 10 THEN randint(30, 50, d.aq)
                                    ELSE randint(55, 75, d.aq))]

BreakRoom_get_telemetry(room, d) ==
    LET in_use == d.in_use < 25
        co2 == add_noise((IF in_use THEN 600 ELSE 450) * Unit, 10, d.co2)
    IN  [room |-> room,
         telemetry |->
            Snapshot(room, co2,
                     IF in_use THEN randint(250, 400, d.light) ELSE randint(0, 100, d.light),
                     IF in_use THEN randint(1, 3, d.occ) ELSE 0,
                     in_use, randint(75, 90, d.aq))]

\* ExecutiveOffice.get_telemetry with work hours that end when hour 17 begins
ExecutiveOffice_get_telemetry_until_17(room, d) ==
    LET is_work_hours == 9 <= d.hour /\ d.hour < 17
        co2 == add_noise((IF is_work_hours THEN 650 ELSE 420) * Unit, 5, d.co2)
    IN  [room |-> room,
         telemetry |->
            Snapshot(room, co2,
                     IF is_work_hours THEN randint(400, 450, d.light) ELSE 0,
                     IF is_work_hours THEN 1 ELSE 0, is_work_hours,
                     randint(85, 98, d.aq))]

ExecutiveOffice_get_telemetry(room, d) ==
    LET is_work_hours == 9 <= d.hour /\ d.hour <= 17
        co2 == add_noise((IF is_work_hours THEN 650 ELSE 420) * Unit, 5, d.co2)
    IN  [room |-> room,
         telemetry |->
            Snapshot(room, co2,
                     IF is_work_hours THEN randint(400, 450, d.light) ELSE 0,
                     IF is_work_hours THEN 1 ELSE 0, is_work_hours,
                     randint(85, 98, d.aq))]

\* dynamic dispatch of RoomProfile.get_telemetry
get_telemetry(room, d) ==
    CASE room.room_type = "server"     -> ServerRoom_get_telemetry(room, d)
      [] room.room_type = "conference" -> ConferenceRoom_get_telemetry(room, d)
      [] room.room_type = "storage"    -> StorageCloset_get_telemetry(room, d)
      [] room.room_type = "office"     -> OpenOffice_get_telemetry(room, d)
      [] room.room_type = "kitchen"    -> Kitchen_get_telemetry(room, d)
      [] room.room_type = "lab"        -> LabWorkshop_get_telemetry(room, d)
      [] room.room_type = "breakroom"  -> BreakRoom_get_telemetry(room, d)
      [] room.room_type = "executive"  -> ExecutiveOffice_get_telemetry(room, d)

\* the draws, and the clock readings, one get_telemetry() of the room makes,
\* the noise of the measured values being drawn from the sets given
DrawsOf(room, noise, counts, motions) ==
    LET t == room.room_type
    IN  [co2    : noise,
         occ    : IF t \in {"conference", "office", "kitchen", "lab", "breakroom"}
                  THEN counts ELSE {0},
         motion : IF t \in {"conference", "office", "kitchen", "lab"}
                  THEN motions ELSE {50},
         aq     : IF t \in {"conference", "office", "kitchen"} THEN {0} ELSE RandintDraws,
         poor   : IF t = "lab" THEN RandomDraws ELSE {50},
         in_use : IF t = "breakroom" THEN RandomDraws ELSE {50},
         hour   : IF t \in {"office", "executive"} THEN HourDraws ELSE {8},
         light  : IF t \in {"office", "executive"} THEN RandintDraws ELSE {0},
         start  : IF t = "kitchen" THEN RandomDraws ELSE {50},
         timer  : IF t = "kitchen" THEN RandintDraws ELSE {0}]

TelemetryDraws(room) == DrawsOf(room, RandomDraws, RandintDraws, RandomDraws)

\* the same with the noise of the measured values at its middle
SteadyDraws(room) == DrawsOf(room, {50}, {0}, {50})

\* the draws of an uneventful call: noise at its middle, lowest randint,
\* no cooking episode started, room not in use, outside work hours
QuietDraws(room) ==
    {d \in SteadyDraws(room) :
        /\ d.aq = 0 /\ d.poor = 50 /\ d.in_use = 50
        /\ d.hour = 8 /\ d.light = 0 /\ d.start = 50 /\ d.timer = 0}

\* the regime flag of a room that has one
Regime(room) ==
    CASE room.room_type = "conference" -> room.meeting_active
      [] room.room_type = "kitchen"    -> room.cooking_active

\* the log of regimes with one more call in it
Logged(log, active) ==
    IF log # <<>> /\ log[Len(log)].active = active
    THEN [log EXCEPT ![Len(log)].calls = @ + 1]
    ELSE Append(log, [active |-> active, calls |-> 1])

RECURSIVE LogCalls(_)
LogCalls(log) ==
    IF log = <<>> THEN 0 ELSE log[1].calls + LogCalls(Tail(log))

\* the regime on call n
RECURSIVE RegimeAt(_, _)
RegimeAt(log, n) ==
    IF n <= log[1].calls THEN log[1].active
    ELSE RegimeAt(Tail(log), n - log[1].calls)

\* one call of rooms[i].get_telemetry() that makes the draws d
Call(i, d) ==
    LET r == get_telemetry(rooms[i], d)
    IN  /\ rooms' = [rooms EXCEPT ![i] = r.room]
        /\ telemetry' = r.telemetry
        /\ regimes' = IF r.room.room_type \in {"conference", "kitchen"}
                      THEN [regimes EXCEPT ![i] = Logged(@, Regime(r.room))]
                      ELSE regimes

\* calls in a row, up to the last call, that left the room in its active regime
ActiveCalls(log) ==
    IF log # <<>> /\ log[Len(log)].active THEN log[Len(log)].calls ELSE 0

\* no part of main.py runs in the telemetry process
NoMain ==
    /\ sensors = <<>>
    /\ bacnet_sensors = <<>>
    /\ modbus_sensors = <<>>
    /\ Idle
    /\ Loaded

mainVars == <<sensors, storeVars, lastRead, calls, loadVars>>

-----------------------------------------------------------------------------
(* One room profile instance on its own, called any number of times *)

\* get_telemetry calls made to a ConferenceRoom
MaxConferenceCalls == 9001

\* get_telemetry calls made to a room of any other profile whose state changes
MaxRoomCalls == 3

RoomInit ==
    /\ NoMain
    /\ \E i \in DOMAIN get_all_room_profiles : rooms = <<get_all_room_profiles[i]>>
    /\ telemetry = NoSnapshot
    /\ regimes = <<(<<>>)>>
    /\ NoRun

\* one call of room.get_telemetry()
RoomCall ==
    /\ LogCalls(regimes[1]) < IF rooms[1].room_type = "conference"
                              THEN MaxConferenceCalls ELSE MaxRoomCalls
    /\ rooms[1].time_offset < MaxRoomCalls * Half
    /\ \E d \in TelemetryDraws(rooms[1]) : Call(1, d)
    /\ UNCHANGED <<mainVars, runVars>>

RoomNext == RoomCall

RoomSpec == RoomInit /\ [][RoomNext]_vars

\* C13: after every get_telemetry() call of a ConferenceRoom, meeting_active
\* equals (meeting_timer mod 3600 < 900) for the timer the call has just
\* advanced, and the timer and the regime of the next call are the same
\* whatever that call draws.
C13_MeetingFollowsTimer ==
    \A i \in DOMAIN rooms :
        rooms[i].room_type = "conference" =>
          /\ regimes[i] # <<>> =>
                rooms[i].meeting_active
                   = ((rooms[i].meeting_timer % (3600 * Unit)) < 900 * Unit)
          /\ Cardinality({get_telemetry(rooms[i], d).room :
                            d \in TelemetryDraws(rooms[i])}) = 1

\* the call that brought the timer to 900 has left the meeting regime
C13_Witness ==
    \E i \in DOMAIN rooms :
        /\ rooms[i].room_type = "conference"
        /\ rooms[i].meeting_timer = 900 * Unit
        /\ ~rooms[i].meeting_active

\* C14: the regime of a ConferenceRoom repeats every 7200 calls: the regime
\* on call n + 7200 is the regime on call n.
C14_RegimePeriod ==
    \A i \in DOMAIN rooms :
        rooms[i].room_type = "conference" =>
          LET n == LogCalls(regimes[i])
          IN  n > 7200 => RegimeAt(regimes[i], n) = RegimeAt(regimes[i], n - 7200)

\* C20: the air_quality_index of every snapshot of every room profile is a
\* whole number in [0, 100].
C20_AirQualityInRange ==
    telemetry # NoSnapshot => telemetry.air_quality_index \in 0..100

\* a meeting snapshot whose CO2 put the index on its floor
C20_Witness ==
    /\ telemetry # NoSnapshot
    /\ telemetry.room_id = "02"
    /\ telemetry.co2_ppm > 1000
    /\ telemetry.air_quality_index = 50

-----------------------------------------------------------------------------
(* A Kitchen on its own, fresh or late in a cooking episode *)

\* get_telemetry calls made to the Kitchen
MaxKitchenCalls == 4

\* draws of the call whose snapshot the Kitchen last returned
LastDraws == CHOOSE d \in SteadyDraws(Kitchen) : ~(d.start < 2)

\* a Kitchen as constructed, and the Kitchen 1799 calls after an episode
\* began with randint(300, 900) = 900 and no later call drew a start:
\* the timer is down to 0.5
KitchenStates ==
    {[room |-> Kitchen, telemetry |-> NoSnapshot, regimes |-> <<>>]}
    \cup
    {LET last == Kitchen_get_telemetry(
                    [Kitchen EXCEPT !.cooking_active = TRUE, !.cooking_timer = Unit],
                    LastDraws)
     IN  [room |-> last.room, telemetry |-> last.telemetry,
          regimes |-> <<[active |-> TRUE, calls |-> 1799]>>]}

KitchenInit ==
    /\ NoMain
    /\ \E k \in KitchenStates :
          /\ rooms = <<k.room>>
          /\ telemetry = k.telemetry
          /\ regimes = <<k.regimes>>
    /\ NoRun

\* one call of kitchen.get_telemetry()
KitchenCall ==
    /\ calls < MaxKitchenCalls
    /\ calls' = calls + 1
    /\ \E d \in TelemetryDraws(rooms[1]) : Call(1, d)
    /\ UNCHANGED <<sensors, storeVars, lastRead, loadVars, runVars>>

KitchenNext == KitchenCall

KitchenSpec == KitchenInit /\ [][KitchenNext]_vars

\* C15: a call made while the Kitchen is cooking leaves the remaining timer
\* at exactly the previous timer minus 0.5: no episode starts, and the timer
\* is neither reset nor extended, on a call that finds the room cooking.
C15_NoRestartWhileCooking ==
    [][\A i \in DOMAIN rooms :
          (rooms[i].room_type = "kitchen" /\ rooms[i].cooking_active) =>
             rooms'[i].cooking_timer = rooms[i].cooking_timer - Half]_vars

\* C16: once cooking_active is true the Kitchen is idle again after at most
\* 1800 calls: no more than 1800 calls in a row leave it cooking.
C16_EpisodeEnds ==
    \A i \in DOMAIN rooms :
        rooms[i].room_type = "kitchen" => ActiveCalls(regimes[i]) <= 1800

-----------------------------------------------------------------------------
(* main.py from its start: the configuration is loaded entry by entry,     *)
(* then run() sets the stores up and starts the loops.  The sensor ids of  *)
(* a configuration are distinct, so an id stands for one instance.         *)

SensorTypes ==
    {"temperature", "humidity", "co2", "air_quality", "light", "energy",
     "motion", "occupancy"}

\* raise ValueError(f"Unknown sensor type: {sensor_type}")
ValueError(sensor_type) ==
    [exception |-> "ValueError", message |-> <<"Unknown sensor type: ", sensor_type>>]

\* _create_sensor constructing a motion sensor for a type it does not know
create_sensor_lenient(sensor_type) ==
    [raised |-> NoError, instances |-> {MotionSensor}]

\* _create_sensor: the instances the constructor of the type can return, or
\* the exception raised
create_sensor(sensor_type) ==
    CASE sensor_type = "temperature" ->
            [raised |-> NoError,
             instances |-> {TemperatureSensor(dr) : dr \in DriftDraws}]
      [] sensor_type = "humidity" ->
            [raised |-> NoError, instances |-> {HumiditySensor}]
      [] sensor_type = "co2" ->
            [raised |-> NoError, instances |-> {CO2Sensor}]
      [] sensor_type = "air_quality" ->
            [raised |-> NoError,
             instances |-> {AirQualitySensor(a) : a \in AqiStartDraws}]
      [] sensor_type = "light" ->
            [raised |-> NoError, instances |-> {LightSensor(on) : on \in BOOLEAN}]
      [] sensor_type = "energy" ->
            [raised |-> NoError,
             instances |-> {EnergySensor(e, r) :
                               e \in EnergyStartDraws, r \in EnergyRateDraws}]
      [] sensor_type = "motion" ->
            [raised |-> NoError, instances |-> {MotionSensor}]
      [] sensor_type = "occupancy" ->
            [raised |-> NoError, instances |-> {OccupancySensor(c) : c \in 0..15}]
      [] OTHER ->
            [raised |-> ValueError(sensor_type), instances |-> {}]

\* d[key] = sensor on a dict kept as the sequence of its items
DictSet(items, key, sensor) ==
    IF key \in Keys(items)
    THEN [i \in 1..Len(items) |->
             IF items[i].key = key THEN Item(key, sensor) ELSE items[i]]
    ELSE Append(items, Item(key, sensor))

\* the mapping of lines 194-199 putting the sensor into both maps
map_to_protocol_both(sensor_config, bacnet, modbus) ==
    [bacnet |-> DictSet(bacnet, sensor_config.address, sensor_config.id),
     modbus |-> DictSet(modbus, sensor_config.address, sensor_config.id)]

\* if protocol == 'bacnet': ... elif protocol == 'modbus': ...
map_to_protocol(sensor_config, bacnet, modbus) ==
    IF sensor_config.protocol = "bacnet"
    THEN [bacnet |-> DictSet(bacnet, sensor_config.address, sensor_config.id),
          modbus |-> modbus]
    ELSE IF sensor_config.protocol = "modbus"
    THEN [bacnet |-> bacnet,
          modbus |-> DictSet(modbus, sensor_config.address, sensor_config.id)]
    ELSE [bacnet |-> bacnet, modbus |-> modbus]

\* the entries a sensors file gives for one sensor id; address is its
\* object_id or register
SensorConfigs(id) ==
    [id : {id}, type : {"humidity", "motion", "pressure"},
     protocol : {"bacnet", "modbus", "mqtt"}, address : {3, 5}]

\* sensors_data['sensors'] of the sensors files loaded
ConfigFiles ==
    {<<a, b>> : a \in SensorConfigs("s1"), b \in SensorConfigs("s2")}

LoadInit ==
    /\ sensors = <<>>
    /\ bacnet_sensors = <<>>
    /\ modbus_sensors = <<>>
    /\ Idle
    /\ NoTelemetry
    /\ sensors_data \in ConfigFiles
    /\ loaded = <<>>
    /\ startup = [phase |-> "loading", error |-> NoError]

\* _load_config: one iteration of its for-loop over the sensor_config entries
SimulatorCoordinator_load_config ==
    /\ startup.phase = "loading"
    /\ sensors_data # <<>>
    /\ LET sensor_config == Head(sensors_data)
           created == create_sensor(sensor_config.type)
       IN  /\ sensors_data' = Tail(sensors_data)
           /\ loaded' = Append(loaded, sensor_config)
           /\ IF created.raised # NoError
              THEN /\ startup' = [phase |-> "failed", error |-> created.raised]
                   /\ UNCHANGED <<sensors, bacnet_sensors, modbus_sensors>>
              ELSE \E sensor \in created.instances :
                     LET maps == map_to_protocol(sensor_config,
                                                 bacnet_sensors, modbus_sensors)
                     IN  /\ sensors' = (sensor_config.id :> sensor) @@ sensors
                         /\ bacnet_sensors' = maps.bacnet
                         /\ modbus_sensors' = maps.modbus
                         /\ UNCHANGED startup
    /\ UNCHANGED <<bacnet_objects, hr, pc, idx, outcome, refreshed, failed,
                   passes, written, pacing, lastRead, calls, telemetryVars>>

\* SimulatorCoordinator.__init__ after _load_config has returned
SimulatorCoordinator_init ==
    /\ startup.phase = "loading"
    /\ sensors_data = <<>>
    /\ startup' = [startup EXCEPT !.phase = "constructed"]
    /\ UNCHANGED <<sensors, storeVars, lastRead, calls, sensors_data, loaded,
                   telemetryVars>>

LoadNext ==
    \/ SimulatorCoordinator_load_config
    \/ SimulatorCoordinator_init
    \/ RunStart
    \/ BACnetSimulator_setup
    \/ ModbusSimulator_setup
    \/ Wake
    \/ BACnetSimulator_update_entry
    \/ ModbusSimulator_update_entry
    \/ Finish

LoadSpec == LoadInit /\ [][LoadNext]_vars

\* the sensors a protocol map holds
Bound(l) == {Items(l)[k].sensor : k \in 1..Len(Items(l))}

\* C17: every constructed sensor is in at most one of the two protocol maps,
\* a sensor configured with another protocol is constructed and is in
\* neither, and a sensor is read only by the loop of the one map that holds it.
C17_BindingExclusive ==
    /\ [](/\ Bound("bacnet") \cap Bound("modbus") = {}
          /\ Bound("bacnet") \cup Bound("modbus") \subseteq DOMAIN sensors
          /\ \A k \in 1..Len(loaded) :
                (loaded[k].type \in SensorTypes /\ loaded[k].protocol \notin Loops)
                => /\ loaded[k].id \in DOMAIN sensors
                   /\ loaded[k].id \notin Bound("bacnet") \cup Bound("modbus"))
    /\ [][\A i \in DOMAIN sensors :
            sensors'[i] # sensors[i] =>
               \E l \in Loops :
                  /\ pc[l] \in {"setup", "pass"}
                  /\ i \in Bound(l)
                  /\ \A o \in Loops \ {l} : i \notin Bound(o)]_vars

\* the loops have run with one sensor bound to a map and read by its loop and
\* another constructed but in neither map
C17_Witness ==
    /\ \E i \in DOMAIN sensors : i \notin Bound("bacnet") \cup Bound("modbus")
    /\ \E l \in Loops :
          /\ outcome[l] = "completed"
          /\ \E i \in Bound(l) : sensors[i].last_value # None

\* C18: once the loading has met an entry whose type is not one of the eight,
\* startup has failed with an error that names the type, for good: nothing
\* more is loaded, no store is set up and no loop is started.
C18_UnknownTypeFailsStartup ==
    \A k \in 1..Len(loaded) :
        loaded[k].type \notin SensorTypes =>
           /\ startup.phase = "failed"
           /\ startup.error.exception = "ValueError"
           /\ startup.error.message[Len(startup.error.message)] = loaded[k].type
           /\ k = Len(loaded)
           /\ \A l \in Loops : pc[l] = "init" /\ passes[l] = 0
           /\ bacnet_objects = <<>>
           /\ hr = <<>>

\* the second entry of a file had an unknown type, after a sensor was constructed
C18_Witness ==
    /\ startup.phase = "failed"
    /\ Len(loaded) = 2
    /\ DOMAIN sensors # {}

-----------------------------------------------------------------------------
(* The telemetry loop of sensor_simulator.py.                               *)
(*                                                                         *)
(* main() has initialized the eight rooms and connected to the broker; the *)
(* signal handler can set shutdown_flag between any two steps of run().    *)

\* iterations of the while-loop of run()
MaxIterations == 2

\* the except clause of publish_telemetry, taken as if the exception left it
publish_telemetry_except_uncaught == "propagates"

\* except Exception as e: logger.error(...)
publish_telemetry_except == "caught"

\* what can happen to one room's publication: get_telemetry() or
\* json.dumps/client.publish raises, or publish returns an error code
PublishFaults == {"ok", "telemetry_raises", "publish_raises", "rc_error"}

\* PUBLISH_INTERVAL = float(os.getenv('PUBLISH_INTERVAL', 0.5)), in milliseconds
PUBLISH_INTERVAL == 500

\* time.time() - iteration_start, in milliseconds: what the for-loop can take
IterationTimes == {120, 500, 730}

\* run: the sleep of an iteration, taken as the whole interval
run_elapsed_full_interval(elapsed) ==
    timing' = [elapsed |-> elapsed, sleep_time |-> PUBLISH_INTERVAL,
               slept |-> None, warned |-> FALSE]

\* run: elapsed = time.time() - iteration_start;
\* sleep_time = max(0, PUBLISH_INTERVAL - elapsed)
run_elapsed(elapsed) ==
    timing' = [elapsed |-> elapsed,
               sleep_time |-> Max(0, PUBLISH_INTERVAL - elapsed),
               slept |-> None, warned |-> FALSE]

TelemetryInit ==
    /\ NoMain
    /\ rooms = get_all_room_profiles
    /\ telemetry = NoSnapshot
    /\ regimes = [i \in DOMAIN get_all_room_profiles |-> <<>>]
    /\ shutdown_flag = FALSE
    /\ message_count = 0
    /\ run = [pc |-> "while", room |-> 0]
    /\ iteration = NoIteration
    /\ timing = NoTiming

\* signal_handler: a SIGINT or SIGTERM is delivered
signal_handler ==
    /\ run.pc # "stopped"
    /\ ~shutdown_flag
    /\ shutdown_flag' = TRUE
    /\ UNCHANGED <<mainVars, rooms, telemetry, regimes, message_count, run,
                   iteration, timing>>

\* run: the test of `while not shutdown_flag`, and iteration_start = time.time();
\* when the loop is left run() returns, and its locals are gone
SensorSimulator_run_while ==
    /\ run.pc = "while"
    /\ IF shutdown_flag
       THEN /\ run' = [pc |-> "stopped", room |-> 0]
            /\ timing' = NoTiming
            /\ UNCHANGED iteration
       ELSE /\ iteration.number < MaxIterations
            /\ run' = [pc |-> "for", room |-> 1]
            /\ iteration' = [NoIteration EXCEPT !.number = iteration.number + 1]
            /\ timing' = NoTiming
    /\ UNCHANGED <<mainVars, rooms, telemetry, regimes, shutdown_flag, message_count>>

\* run: `if shutdown_flag: break` inside the for-loop, then elapsed and sleep_time
SensorSimulator_run_break ==
    /\ run.pc = "for"
    /\ run.room <= Len(rooms)
    /\ shutdown_flag
    /\ run' = [pc |-> "sleep", room |-> 0]
    /\ iteration' = [iteration EXCEPT !.interrupted = TRUE]
    /\ \E elapsed \in IterationTimes : run_elapsed(elapsed)
    /\ UNCHANGED <<mainVars, rooms, telemetry, regimes, shutdown_flag, message_count>>

\* run: self.publish_telemetry(room) for the next room of the for-loop
SensorSimulator_publish_telemetry ==
    /\ run.pc = "for"
    /\ run.room <= Len(rooms)
    /\ ~shutdown_flag
    /\ LET room == rooms[run.room]
       IN  \E f \in PublishFaults, d \in QuietDraws(room) :
             /\ IF f = "telemetry_raises"
                THEN UNCHANGED <<rooms, telemetry, regimes>>
                ELSE Call(run.room, d)
             /\ message_count' = IF f = "ok" THEN message_count + 1 ELSE message_count
             /\ iteration' =
                   [iteration EXCEPT
                      !.attempted = Append(@, room.room_id),
                      !.published = IF f = "ok" THEN Append(@, room.room_id) ELSE @,
                      !.failures = IF f = "ok" THEN @ ELSE @ \cup {room.room_id}]
             /\ run' = IF f \in {"telemetry_raises", "publish_raises"}
                          /\ publish_telemetry_except # "caught"
                       THEN [pc |-> "stopped", room |-> 0]
                       ELSE [run EXCEPT !.room = @ + 1]
    /\ UNCHANGED <<mainVars, shutdown_flag, timing>>

\* run: the for-loop is over: elapsed and sleep_time are computed
SensorSimulator_run_sleep ==
    /\ run.pc = "for"
    /\ run.room > Len(rooms)
    /\ run' = [pc |-> "sleep", room |-> 0]
    /\ \E elapsed \in IterationTimes : run_elapsed(elapsed)
    /\ UNCHANGED <<mainVars, rooms, telemetry, regimes, shutdown_flag,
                   message_count, iteration>>

\* run: `if sleep_time > 0: time.sleep(sleep_time)`, else the lag warning;
\* then back to the test of the while-loop
SensorSimulator_run_wake ==
    /\ run.pc = "sleep"
    /\ run' = [pc |-> "while", room |-> 0]
    /\ timing' = IF timing.sleep_time > 0
                 THEN [timing EXCEPT !.slept = timing.sleep_time]
                 ELSE [timing EXCEPT !.slept = 0, !.warned = TRUE]
    /\ UNCHANGED <<mainVars, rooms, telemetry, regimes, shutdown_flag,
                   message_count, iteration>>

TelemetryNext ==
    \/ signal_handler
    \/ SensorSimulator_run_while
    \/ SensorSimulator_run_break
    \/ SensorSimulator_publish_telemetry
    \/ SensorSimulator_run_sleep
    \/ SensorSimulator_run_wake

TelemetrySpec == TelemetryInit /\ [][TelemetryNext]_vars

\* C19: an iteration of the telemetry loop that no shutdown cut short has
\* called get_telemetry() once for each of the eight rooms, in order, and
\* published once every room on which nothing failed, whatever failed on the
\* other rooms; and the loop stops only on shutdown.
C19_EveryRoomEveryIteration ==
    /\ (run.pc = "sleep" /\ ~iteration.interrupted) =>
          /\ Len(rooms) = 8
          /\ Cardinality({rooms[i].room_id : i \in DOMAIN rooms}) = 8
          /\ iteration.attempted = [i \in DOMAIN rooms |-> rooms[i].room_id]
          /\ iteration.published =
                SelectSeq(iteration.attempted,
                          LAMBDA id : id \notin iteration.failures)
    /\ run.pc = "stopped" => shutdown_flag

\* a second iteration is over in which the first room failed and the last
\* room was published
C19_Witness ==
    /\ run.pc = "sleep"
    /\ ~iteration.interrupted
    /\ iteration.number = 2
    /\ "01" \in iteration.failures
    /\ iteration.published # <<>>
    /\ iteration.published[Len(iteration.published)] = "08"

\* C22: the iterations of the telemetry loop never overlap: one begins only
\* when the one before has gone through its sleep-or-warn statement, and it
\* begins with the first room.  An iteration that took less than
\* PUBLISH_INTERVAL sleeps exactly the remainder and logs no warning; one that
\* took PUBLISH_INTERVAL or more logs the lag warning and sleeps no time at
\* all; and every iteration that no shutdown cut short, the one after a lag
\* warning included, calls every room.
C22_TelemetryPacing ==
    /\ [](/\ (run.pc = "while" /\ timing.elapsed # None) =>
               IF timing.elapsed < PUBLISH_INTERVAL
               THEN /\ timing.slept = PUBLISH_INTERVAL - timing.elapsed
                    /\ timing.slept > 0
                    /\ ~timing.warned
               ELSE /\ timing.slept = 0
                    /\ timing.warned
           /\ (run.pc = "sleep" /\ ~iteration.interrupted) =>
               /\ timing.slept = None
               /\ Len(iteration.attempted) = Len(rooms))
    /\ [][iteration'.number # iteration.number =>
             /\ run.pc = "while"
             /\ (iteration.number > 0 => timing.slept # None)
             /\ iteration'.number = iteration.number + 1
             /\ iteration'.attempted = <<>>
             /\ run' = [pc |-> "for", room |-> 1]]_vars

\* the first iteration is over and the second called the eight rooms in
\* exactly the interval: the lag warning is logged and no time is slept
C22_Witness ==
    /\ run.pc = "while"
    /\ iteration.number = 2
    /\ ~iteration.interrupted
    /\ Len(iteration.attempted) = 8
    /\ timing.elapsed = PUBLISH_INTERVAL
    /\ timing.slept = 0
    /\ timing.warned

-----------------------------------------------------------------------------
(* Readers and the refresh passes of main.py, under Spec *)

\* C23: both refresh loops keep a period of 100 ms from the start of one
\* pass to the start of the next: after a pass the loop waits 100 ms less the
\* time the pass took, and after a pass of more than 100 ms it logs a lag
\* warning and waits no time at all
C23_FixedPeriod ==
    \A l \in Loops :
        pc[l] = "sleep" =>
            /\ pacing[l].sleep_time = Max(0, UpdateSleep - pacing[l].elapsed)
            /\ (pacing[l].elapsed > UpdateSleep => pacing[l].logged = "warning")

\* C21: in both tables a reader can be served between two entry updates of
\* one refresh pass: whenever a pass has updated an entry and has another one
\* still to update, a read of that table can be answered
C21_ReaderServedMidPass ==
    \A l \in Loops :
        (pc[l] = "pass" /\ 1 < idx[l] /\ idx[l] <= Len(Items(l)))
            => ENABLED (IF l = "bacnet" THEN BACnetRead ELSE ModbusRead)

-----------------------------------------------------------------------------
(* The sensors, one instance on its own, under SensorSpec *)

\* C27: the value a LightSensor returned is in [300, 600] if the sensor is on
\* after the call and in [0, 50] if it is off, and it is the rounded
\* lux_level; the value a MotionSensor returned is 1.0 if motion_detected is
\* true after the call and 0.0 if it is false; and a call leaves the binary
\* state as it was or flips it
C27_BinarySensors ==
    /\ [](\A i \in DOMAIN sensors :
            LET s == sensors[i]
            IN  s.last_value # None =>
                  /\ s.kind = "light" =>
                        /\ s.last_value = Round(s.lux_level, 2)
                        /\ s.is_on =>
                              300 * Unit <= s.last_value /\ s.last_value <= 600 * Unit
                        /\ ~s.is_on =>
                              0 <= s.last_value /\ s.last_value <= 50 * Unit
                  /\ s.kind = "motion" =>
                        s.last_value = IF s.motion_detected THEN Unit ELSE 0)
    /\ [][\A i \in DOMAIN sensors :
            /\ sensors[i].kind = "light" =>
                  sensors'[i].is_on \in {sensors[i].is_on, ~sensors[i].is_on}
            /\ sensors[i].kind = "motion" =>
                  sensors'[i].motion_detected
                     \in {sensors[i].motion_detected, ~sensors[i].motion_detected}]_vars

\* a light sensor that is off and returned 25.5 lux
C27_Witness ==
    \E i \in DOMAIN sensors :
        /\ sensors[i].kind = "light"
        /\ ~sensors[i].is_on
        /\ sensors[i].lux_level = 2550400
        /\ sensors[i].last_value = 2550000

-----------------------------------------------------------------------------
(* The room profiles, one instance on its own, under RoomSpec *)

\* C25: every get_telemetry() call of the OpenOffice, whatever the hour,
\* advances its time_offset by exactly 0.5
C25_OpenOfficePhase ==
    [][\A i \in DOMAIN rooms :
          (rooms[i].room_id = "04" /\ telemetry' # telemetry) =>
              rooms'[i].time_offset = rooms[i].time_offset + Half]_vars

\* C26: the air_quality_index of a snapshot of the ConferenceRoom, the
\* OpenOffice, the Kitchen and the LabWorkshop is determined by the co2_ppm of
\* the same snapshot: it is max(50, 100 - co2 div 20), max(60, 100 - co2 div 15)
\* and max(40, 100 - co2 div 18) for the first three, and two snapshots of the
\* LabWorkshop with the same co2_ppm have the same air_quality_index
C26_AirQualityFromCO2 ==
    /\ [](telemetry # NoSnapshot =>
            CASE telemetry.room_id = "02" ->
                    telemetry.air_quality_index
                       = Max(50, 100 - telemetry.co2_ppm \div 20)
              [] telemetry.room_id = "04" ->
                    telemetry.air_quality_index
                       = Max(60, 100 - telemetry.co2_ppm \div 15)
              [] telemetry.room_id = "05" ->
                    telemetry.air_quality_index
                       = Max(40, 100 - telemetry.co2_ppm \div 18)
              [] OTHER -> TRUE)
    /\ [][(/\ telemetry # NoSnapshot
           /\ telemetry.room_id = "06"
           /\ telemetry'.room_id = "06"
           /\ telemetry'.co2_ppm = telemetry.co2_ppm) =>
              telemetry'.air_quality_index = telemetry.air_quality_index]_vars

\* C29: a call of the OpenOffice or of the ExecutiveOffice that reads the UTC
\* hour h returns the snapshot of the work-hours regime exactly when
\* 9 <= h <= 17.  For the OpenOffice that is 5 to 8 occupants with motion,
\* against none; for the ExecutiveOffice it is occupancy_count 1 with motion
\* and light, against occupancy_count 0, no motion and light_lux 0.  Every
\* snapshot the ExecutiveOffice has returned is one of the two.
C29_WorkHours ==
    /\ \A i \in DOMAIN rooms :
          rooms[i].room_id \in {"04", "08"} =>
            \A d \in TelemetryDraws(rooms[i]) :
                LET t == get_telemetry(rooms[i], d).telemetry
                    work == 9 <= d.hour /\ d.hour <= 17
                IN  IF rooms[i].room_id = "04"
                    THEN /\ work => /\ t.occupancy_count \in 5..8
                                    /\ t.motion_detected
                                    /\ t.light_lux \in 350..500
                         /\ ~work => /\ t.occupancy_count = 0
                                     /\ t.light_lux \in 0..50
                    ELSE /\ work => /\ t.occupancy_count = 1
                                    /\ t.motion_detected
                                    /\ t.light_lux \in 400..450
                         /\ ~work => /\ t.occupancy_count = 0
                                     /\ ~t.motion_detected
                                     /\ t.light_lux = 0
    /\ (telemetry # NoSnapshot /\ telemetry.room_id = "08") =>
          \/ /\ telemetry.occupancy_count = 1
             /\ telemetry.motion_detected
             /\ telemetry.light_lux \in 400..450
          \/ /\ telemetry.occupancy_count = 0
             /\ ~telemetry.motion_detected
             /\ telemetry.light_lux = 0

\* the ExecutiveOffice has returned a snapshot of the hours outside work
C29_Witness ==
    /\ telemetry # NoSnapshot
    /\ telemetry.room_id = "08"
    /\ telemetry.occupancy_count = 0
    /\ ~telemetry.motion_detected
    /\ telemetry.light_lux = 0

-----------------------------------------------------------------------------
(* The Kitchen on its own, under KitchenSpec *)

\* C30: at construction and after every get_telemetry() call of the Kitchen,
\* cooking_active is true if and only if cooking_timer > 0; and the snapshot
\* of a call is the one of the cooking regime (1 to 3 occupants, motion, CO2
\* around 1000 ppm, light 300 to 500) if cooking_active is true when the call
\* ends, and the one of the idle regime (0 or 1 occupant, CO2 around 550 ppm,
\* light 100 to 300) if it is false
C30_CookingFollowsTimer ==
    \A i \in DOMAIN rooms :
        rooms[i].room_type = "kitchen" =>
          /\ rooms[i].cooking_active <=> rooms[i].cooking_timer > 0
          /\ (telemetry # NoSnapshot /\ telemetry.room_id = rooms[i].room_id) =>
                IF rooms[i].cooking_active
                THEN /\ telemetry.occupancy_count \in 1..3
                     /\ telemetry.motion_detected
                     /\ telemetry.co2_ppm \in 800..1200
                     /\ telemetry.light_lux \in 300..500
                ELSE /\ telemetry.occupancy_count \in 0..1
                     /\ telemetry.co2_ppm \in 495..605
                     /\ telemetry.light_lux \in 100..300

\* the call that took the timer of an episode to 0 has returned an idle snapshot
C30_Witness ==
    /\ ~rooms[1].cooking_active
    /\ rooms[1].cooking_timer = 0
    /\ Len(regimes[1]) = 2
    /\ regimes[1][1].active
    /\ regimes[1][2] = [active |-> FALSE, calls |-> 1]
    /\ telemetry.room_id = "05"
    /\ telemetry.co2_ppm \in 495..605

-----------------------------------------------------------------------------
(* The loops of main.py, with no client reading, and a caller of           *)
(* CO2Sensor.set_occupancy: no code of the repository calls it.            *)

\* set_occupancy calls made to the sensors of the simulator
MaxHookCalls == 1

\* what _load_config leaves for a CO2 sensor on the object table and a motion
\* sensor on the register table
HookInit ==
    /\ sensors = ("c1" :> CO2Sensor) @@ ("m1" :> MotionSensor)
    /\ bacnet_sensors = <<Item(9, "c1")>>
    /\ modbus_sensors = <<Item(3, "m1")>>
    /\ Idle
    /\ Loaded
    /\ NoTelemetry

\* one call of set_occupancy(count) on a CO2 sensor of the simulator, made
\* while no coroutine is inside a pass
SetOccupancy ==
    /\ calls < MaxHookCalls
    /\ ~Busy
    /\ \E i \in DOMAIN sensors, count \in OccupancyCounts :
          /\ sensors[i].kind = "co2"
          /\ sensors' = [sensors EXCEPT ![i] = CO2Sensor_set_occupancy(@, count)]
    /\ calls' = calls + 1
    /\ UNCHANGED <<storeVars, lastRead, loadVars, telemetryVars>>

HookNext ==
    \/ SetOccupancy
    \/ RunStart
    \/ BACnetSimulator_setup
    \/ ModbusSimulator_setup
    \/ Wake
    \/ BACnetSimulator_update_entry
    \/ ModbusSimulator_update_entry
    \/ Finish

HookSpec == HookInit /\ [][HookNext]_vars

\* C28: as long as nothing outside the loops of the simulator has called
\* set_occupancy, the occupancy_multiplier of every CO2 sensor is 1.0, and no
\* step of the loops changes it; a set_occupancy(count) call sets the
\* multiplier of its sensor to 1 + 0.1 count and changes nothing else: not
\* current_co2, not last_value, no other sensor, no table
C28_OccupancyHook ==
    /\ [](calls = 0 =>
            \A i \in DOMAIN sensors :
                sensors[i].kind = "co2" => sensors[i].occupancy_multiplier = 10)
    /\ [][IF calls' = calls
          THEN \A i \in DOMAIN sensors :
                  sensors[i].kind = "co2" =>
                     sensors'[i].occupancy_multiplier = sensors[i].occupancy_multiplier
          ELSE /\ \E i \in DOMAIN sensors, count \in OccupancyCounts :
                     /\ sensors[i].kind = "co2"
                     /\ sensors' = [sensors EXCEPT
                                       ![i].occupancy_multiplier = 10 + count]
               /\ UNCHANGED <<bacnet_objects, hr, written, lastRead>>]_vars

\* both loops have finished a pass, both sensors have been read, and
\* set_occupancy(3) has been called on the CO2 sensor
C28_Witness ==
    /\ calls = 1
    /\ pc["bacnet"] = "sleep"
    /\ pc["modbus"] = "sleep"
    /\ sensors["c1"].occupancy_multiplier = 13
    /\ sensors["c1"].last_value # None
    /\ sensors["m1"].last_value # None

-----------------------------------------------------------------------------
(* Shutdown.  The simulator of main.py runs while a SIGINT or SIGTERM      *)
(* raises the shutdown flag of sensor_simulator.py; main.py installs no    *)
(* handler and reads no flag.                                              *)

ShutdownInit == Init

ShutdownNext ==
    \/ signal_handler
    \/ RunStart
    \/ BACnetSimulator_setup
    \/ ModbusSimulator_setup
    \/ Wake
    \/ BACnetSimulator_update_entry
    \/ ModbusSimulator_update_entry
    \/ Finish
    \/ BACnetRead
    \/ ModbusRead

ShutdownSpec == ShutdownInit /\ [][ShutdownNext]_vars

\* C24: once the shutdown flag is set every loop stops: the telemetry loop
\* calls and publishes no further room and does not begin another iteration,
\* and the BACnet and Modbus refresh loops begin no pass after the sleep they
\* are in
C24_LoopsObserveShutdown ==
    [][shutdown_flag =>
          /\ message_count' = message_count
          /\ iteration'.attempted = iteration.attempted
          /\ iteration'.number = iteration.number
          /\ \A l \in Loops : pc'[l] = "pass" => pc[l] = "pass"]_vars
====
